---- MODULE Spec2Model ----
(***************************************************************************)
(* DataConvert (src/dataconvert.py): the shared Value model, the block     *)
(* format codec SimpleYAML, the element tree <-> Value mapping and the     *)
(* conversion facade DataConvert.convert.                                  *)
(*                                                                         *)
(* A Python str is a sequence of one-character strings; a text with        *)
(* several lines holds the character "\n".  Sequences are 1-based here and *)
(* 0-based in the source: a cursor i of the source is i + 1 below.         *)
(***************************************************************************)
EXTENDS Integers, Sequences, FiniteSets, TLC

VARIABLES op, arg, text, out, aux

vars == <<op, arg, text, out, aux>>

(***************************************************************************)
(* Bounds of the checked inputs.                                           *)
(***************************************************************************)
MaxNodes == 4
MaxLines == 3
MaxTreeNodes == 4
MaxDocNodes == 3
MaxDocTreeNodes == 2

(***************************************************************************)
(* str helpers                                                             *)
(***************************************************************************)
Digits == {"0", "1", "2", "3", "4", "5", "6", "7", "8", "9"}

\* str.strip() / str.lstrip() with no argument remove whitespace
IsSpace(c) == c \in {" ", "\n"}

NonSpace(s) == {i \in 1..Len(s) : ~IsSpace(s[i])}

MinOf(S) == CHOOSE x \in S : \A y \in S : x <= y

MaxOf(S) == CHOOSE x \in S : \A y \in S : y <= x

lstrip(s) == IF NonSpace(s) = {} THEN <<>> ELSE SubSeq(s, MinOf(NonSpace(s)), Len(s))

strip(s) == IF NonSpace(s) = {} THEN <<>> ELSE SubSeq(s, MinOf(NonSpace(s)), MaxOf(NonSpace(s)))

startswith(s, p) == Len(s) >= Len(p) /\ SubSeq(s, 1, Len(p)) = p

endswith(s, p) == Len(s) >= Len(p) /\ SubSeq(s, Len(s) - Len(p) + 1, Len(s)) = p

\* c in s
contains(s, c) == \E i \in 1..Len(s) : s[i] = c

\* index of the first occurrence of c in s (s contains c)
find(s, c) == MinOf({i \in 1..Len(s) : s[i] = c})

\* s.split(c, 1) when c is in s: the parts before and after the first c
split1(s, c) == <<SubSeq(s, 1, find(s, c) - 1), SubSeq(s, find(s, c) + 1, Len(s))>>

\* s.split(c)
RECURSIVE split(_, _)
split(s, c) ==
    IF ~contains(s, c) THEN <<s>>
    ELSE <<split1(s, c)[1]>> \o split(split1(s, c)[2], c)

\* sep.join(parts)
RECURSIVE join(_, _)
join(parts, sep) ==
    IF parts = <<>> THEN <<>>
    ELSE IF Len(parts) = 1 THEN parts[1]
    ELSE parts[1] \o sep \o join(Tail(parts), sep)

\* str.isdigit() on ASCII text
isdigit(s) == s # <<>> /\ \A i \in 1..Len(s) : s[i] \in Digits

DigitVal(c) == CHOOSE n \in 0..9 : <<"0", "1", "2", "3", "4", "5", "6", "7", "8", "9">>[n + 1] = c

DigitChr(n) == <<"0", "1", "2", "3", "4", "5", "6", "7", "8", "9">>[n + 1]

\* int(s) for an all-digit s
RECURSIVE int(_)
int(s) == IF s = <<>> THEN 0 ELSE 10 * int(SubSeq(s, 1, Len(s) - 1)) + DigitVal(s[Len(s)])

\* str(n) for a natural number n
RECURSIVE NatStr(_)
NatStr(n) == IF n < 10 THEN <<DigitChr(n)>> ELSE NatStr(n \div 10) \o <<DigitChr(n % 10)>>

IntStr(n) == IF n < 0 THEN <<"-">> \o NatStr(-n) ELSE NatStr(n)

\* '  ' * indent
RECURSIVE Spaces(_)
Spaces(n) == IF n <= 0 THEN <<>> ELSE <<" ">> \o Spaces(n - 1)

(***************************************************************************)
(* The Value model: what json.loads, SimpleYAML.parse and _element_to_dict *)
(* produce.  A dict is its (key, value) pairs in insertion order.          *)
(***************************************************************************)
Null == [t |-> "null"]

Bool(b) == [t |-> "bool", b |-> b]

Integer(n) == [t |-> "int", n |-> n]

\* a float: sign, integer part, fraction digits without trailing zeros;
\* kind is "fin", "inf" or "nan"
Float(kind, neg, ip, fp) == [t |-> "float", kind |-> kind, neg |-> neg, ip |-> ip, fp |-> fp]

Text(s) == [t |-> "text", s |-> s]

List(items) == [t |-> "list", items |-> items]

Map(pairs) == [t |-> "map", pairs |-> pairs]

IsScalar(v) == v.t \in {"null", "bool", "int", "float", "text"}

Keys(m) == [i \in 1..Len(m.pairs) |-> m.pairs[i][1]]

HasKey(m, k) == \E i \in 1..Len(m.pairs) : m.pairs[i][1] = k

Get(m, k) == m.pairs[CHOOSE i \in 1..Len(m.pairs) : m.pairs[i][1] = k][2]

\* result[k] = v on a dict's pairs: overwrite in place or append
Put(pairs, k, v) ==
    IF \E i \in 1..Len(pairs) : pairs[i][1] = k
    THEN [i \in 1..Len(pairs) |-> IF pairs[i][1] = k THEN <<k, v>> ELSE pairs[i]]
    ELSE Append(pairs, <<k, v>>)

\* flatten a sequence of sequences
RECURSIVE Concat(_)
Concat(ss) == IF ss = <<>> THEN <<>> ELSE Head(ss) \o Concat(Tail(ss))

(***************************************************************************)
(* Python's float(s) and str(x)                                            *)
(***************************************************************************)
AllDigits(s) == \A i \in 1..Len(s) : s[i] \in Digits

Unsigned(s) == IF s # <<>> /\ s[1] \in {"-", "+"} THEN Tail(s) ELSE s

FloatWords == {<<"i", "n", "f">>, <<"n", "a", "n">>, <<"i", "n", "f", "i", "n", "i", "t", "y">>}

\* float(s) does not raise ValueError.  Decimal forms without exponent and
\* without digit-group underscores, and the words inf, infinity, nan; the
\* checked inputs hold no "e" and no "_".
float_ok(s) ==
    LET body == Unsigned(s) IN
    \/ body \in FloatWords
    \/ isdigit(body)
    \/ /\ contains(body, ".")
       /\ AllDigits(split1(body, ".")[1])
       /\ AllDigits(split1(body, ".")[2])
       /\ Len(body) > 1

\* fraction digits without their trailing zeros
RECURSIVE TrimZeros(_)
TrimZeros(s) == IF s # <<>> /\ s[Len(s)] = "0" THEN TrimZeros(SubSeq(s, 1, Len(s) - 1)) ELSE s

\* float(s) when float_ok(s)
float(s) ==
    LET body == Unsigned(s)
        neg == s # <<>> /\ s[1] = "-"
    IN  IF body = <<"n", "a", "n">> THEN Float("nan", FALSE, 0, <<>>)
        ELSE IF body \in FloatWords THEN Float("inf", neg, 0, <<>>)
        ELSE IF contains(body, ".")
             THEN Float("fin", neg, int(split1(body, ".")[1]), TrimZeros(split1(body, ".")[2]))
             ELSE Float("fin", neg, int(body), <<>>)

FloatStr(f) ==
    IF f.kind = "nan" THEN <<"n", "a", "n">>
    ELSE (IF f.neg THEN <<"-">> ELSE <<>>) \o
         (IF f.kind = "inf" THEN <<"i", "n", "f">>
          ELSE NatStr(f.ip) \o <<".">> \o (IF f.fp = <<>> THEN <<"0">> ELSE f.fp))

\* repr(s) of a str without backslashes: single quotes unless s holds ' and no "
StrRepr(s) ==
    IF contains(s, "'") /\ ~contains(s, "\"") THEN <<"\"">> \o s \o <<"\"">>
    ELSE <<"'">> \o s \o <<"'">>

\* repr(x) of a Value
RECURSIVE PyRepr(_)
PyRepr(v) ==
    CASE v.t = "null" -> <<"N", "o", "n", "e">>
      [] v.t = "bool" -> IF v.b THEN <<"T", "r", "u", "e">> ELSE <<"F", "a", "l", "s", "e">>
      [] v.t = "int" -> IntStr(v.n)
      [] v.t = "float" -> FloatStr(v)
      [] v.t = "text" -> StrRepr(v.s)
      [] v.t = "list" ->
            <<"[">> \o join([i \in 1..Len(v.items) |-> PyRepr(v.items[i])], <<",", " ">>) \o <<"]">>
      [] v.t = "map" ->
            <<"{">> \o join([i \in 1..Len(v.pairs) |->
                                StrRepr(v.pairs[i][1]) \o <<":", " ">> \o PyRepr(v.pairs[i][2])],
                            <<",", " ">>)
                    \o <<"}">>

\* str(x) of a Value, as str() and f-strings give it
PyStr(v) == IF v.t = "text" THEN v.s ELSE PyRepr(v)

(***************************************************************************)
(* SimpleYAML: the block format codec                                      *)
(***************************************************************************)
\* SimpleYAML._parse_value
parse_value(value) ==
    IF value = <<>> \/ value = <<"n", "u", "l", "l">> THEN Null
    ELSE IF value = <<"t", "r", "u", "e">> THEN Bool(TRUE)
    ELSE IF value = <<"f", "a", "l", "s", "e">> THEN Bool(FALSE)
    ELSE IF isdigit(value) THEN Integer(int(value))
    ELSE IF float_ok(value) THEN float(value)
    ELSE IF \/ startswith(value, <<"\"">>) /\ endswith(value, <<"\"">>)
            \/ startswith(value, <<"'">>) /\ endswith(value, <<"'">>)
         THEN Text(SubSeq(value, 2, Len(value) - 1))
         ELSE Text(value)

\* _serialize_value without its test for None
serialize_value_no_null(value) ==
    IF value.t = "bool"
    THEN (IF value.b THEN <<"t", "r", "u", "e">> ELSE <<"f", "a", "l", "s", "e">>)
    ELSE IF value.t = "text" /\ (contains(value.s, " ") \/ contains(value.s, ":"))
         THEN <<"\"">> \o value.s \o <<"\"">>
    ELSE PyStr(value)

\* SimpleYAML._serialize_value
serialize_value(value) ==
    IF value.t = "null" THEN <<"n", "u", "l", "l">>
    ELSE IF value.t = "bool"
         THEN (IF value.b THEN <<"t", "r", "u", "e">> ELSE <<"f", "a", "l", "s", "e">>)
    ELSE IF value.t = "text" /\ (contains(value.s, " ") \/ contains(value.s, ":"))
         THEN <<"\"">> \o value.s \o <<"\"">>
    ELSE PyStr(value)

\* SimpleYAML.serialize.  sub.replace(ind + '  ', ind + '  ', 1) replaces a
\* text by itself and leaves sub as it is.
RECURSIVE serialize(_, _)
serialize(data, indent) ==
    LET ind == Spaces(2 * indent) IN
    IF data.t = "map"
    THEN join(Concat([i \in 1..Len(data.pairs) |->
                LET key == data.pairs[i][1]
                    value == data.pairs[i][2]
                IN  IF value.t \in {"map", "list"}
                    THEN <<ind \o key \o <<":">>, serialize(value, indent + 1)>>
                    ELSE <<ind \o key \o <<":", " ">> \o serialize_value(value)>>]),
              <<"\n">>)
    ELSE IF data.t = "list"
    THEN join(Concat([i \in 1..Len(data.items) |->
                LET item == data.items[i]
                IN  IF item.t \in {"map", "list"}
                    THEN <<ind \o <<"-", " ">>, serialize(item, indent + 1)>>
                    ELSE <<ind \o <<"-", " ">> \o serialize_value(item)>>]),
              <<"\n">>)
    ELSE PyStr(data)

\* len(line) - len(line.lstrip())
indent_of(line) == Len(line) - Len(lstrip(line))

\* the inner loop of _parse_lines (lines 86-93): the cursor j where the
\* collection of the nested block that starts after line i stops
sub_end(lines, i, line_indent) ==
    LET stops == {j \in (i + 1)..Len(lines) :
                    indent_of(lines[j]) <= line_indent /\ strip(lines[j]) # <<>>}
    IN  IF stops = {} THEN Len(lines) + 1 ELSE MinOf(stops)

\* line 102 with the dict preferred: return result if result else list_items
scope_result_map_wins(result, list_items) ==
    IF result # <<>> THEN Map(result) ELSE List(list_items)

\* line 102: return list_items if list_items else result
scope_result(result, list_items) == IF list_items # <<>> THEN List(list_items) ELSE Map(result)

\* lines 59-68: the item a list-item line appends
list_item(stripped) ==
    LET value == strip(SubSeq(stripped, 3, Len(stripped))) IN
    IF contains(value, ":")
    THEN Map(<< <<strip(split1(value, ":")[1]), parse_value(strip(split1(value, ":")[2]))>> >>)
    ELSE parse_value(value)

\* lines 51-56 without the skip of a deeper line
indent_window_no_skip(line_indent, indent) ==
    IF line_indent < indent THEN "break" ELSE "at"

\* lines 51-56: a line of smaller indent ends the scope (break), a deeper line
\* is skipped (continue), a line at the scope's indent is read
indent_window(line_indent, indent) ==
    IF line_indent < indent THEN "break"
    ELSE IF line_indent > indent THEN "continue"
    ELSE "at"

\* SimpleYAML._parse_lines: the while loop from cursor i on
RECURSIVE parse_loop(_, _, _, _, _)
parse_lines(lines, indent) == parse_loop(lines, indent, 1, <<>>, <<>>)

parse_loop(lines, indent, i, result, list_items) ==
    IF i > Len(lines) THEN scope_result(result, list_items)
    ELSE
    LET line == lines[i]
        stripped == strip(line)
        line_indent == indent_of(line)
    IN
    IF stripped = <<>> \/ startswith(stripped, <<"#">>)
    THEN parse_loop(lines, indent, i + 1, result, list_items)
    ELSE IF indent_window(line_indent, indent) = "break"
    THEN scope_result(result, list_items)
    ELSE IF indent_window(line_indent, indent) = "continue"
    THEN parse_loop(lines, indent, i + 1, result, list_items)
    ELSE IF startswith(stripped, <<"-", " ">>)
    THEN parse_loop(lines, indent, i + 1, result, Append(list_items, list_item(stripped)))
    ELSE IF contains(stripped, ":")
    THEN LET key == strip(split1(stripped, ":")[1])
             value == strip(split1(stripped, ":")[2])
         IN  IF value # <<>>
             THEN parse_loop(lines, indent, i + 1, Put(result, key, parse_value(value)), list_items)
             ELSE IF i + 1 <= Len(lines)
             THEN LET next_indent == indent_of(lines[i + 1]) IN
                  IF next_indent > line_indent
                  THEN LET j == sub_end(lines, i, line_indent) IN
                       parse_loop(lines, indent, j,
                                  Put(result, key, parse_lines(SubSeq(lines, i + 1, j - 1), next_indent)),
                                  list_items)
                  ELSE parse_loop(lines, indent, i + 1, result, list_items)
             ELSE parse_loop(lines, indent, i + 1, Put(result, key, Null), list_items)
    ELSE parse_loop(lines, indent, i + 1, result, list_items)

\* SimpleYAML.parse
parse(txt) == parse_lines(split(strip(txt), "\n"), 0)

\* DataConvert.yaml_to_dict
yaml_to_dict(yaml_str) == parse(yaml_str)

\* DataConvert.dict_to_yaml
dict_to_yaml(data) == serialize(data, 0)

(***************************************************************************)
(* The Values handed to the block format codec: every dict and list of at  *)
(* most MaxNodes nodes over the scalars and keys below.                    *)
(***************************************************************************)
\* The inputs are listed in sequences, not in sets.
Scalars ==
    <<Null, Bool(TRUE), Bool(FALSE), Integer(1), Float("fin", FALSE, 1, <<"5">>),
      Text(<<"a">>), Text(<<"1">>), Text(<<>>), Text(<<"a", ":", "b">>)>>

MapKeys == << <<"a">>, <<"b">> >>

\* the pairs of an element of A and an element of B
CrossList(A, B) ==
    [i \in 1..(Len(A) * Len(B)) |->
        <<A[((i - 1) \div Len(B)) + 1], B[((i - 1) % Len(B)) + 1]>>]

\* the sequences that begin with an element of A and go on as a sequence of B
PrependAll(A, B) ==
    LET c == CrossList(A, B) IN [i \in 1..Len(c) |-> <<c[i][1]>> \o c[i][2]]

IsInjective(ks) == \A i, j \in 1..Len(ks) : ks[i] = ks[j] => i = j

\* the sequences of at most n distinct keys
RECURSIVE KeySeqs(_, _)
KeySeqs(n, keys) ==
    IF n = 0 THEN << <<>> >>
    ELSE LET shorter == KeySeqs(n - 1, keys) IN
         shorter \o SelectSeq(PrependAll(keys, SelectSeq(shorter, LAMBDA ks : Len(ks) = n - 1)),
                              IsInjective)

\* the Lists and the Maps that hold the Values of a sequence of seqs, as items
\* or under distinct keys
Holding(seqs, keySeqs) ==
    LET fits == SelectSeq(CrossList(keySeqs, seqs), LAMBDA p : Len(p[1]) = Len(p[2]))
    IN  [i \in 1..Len(seqs) |-> List(seqs[i])]
        \o [i \in 1..Len(fits) |->
               Map([j \in 1..Len(fits[i][1]) |-> <<fits[i][1][j], fits[i][2][j]>>])]

\* byNodes[k] lists the Values of k nodes and ofNodes[m + 1] the sequences of
\* Values with m nodes in all; the result is byNodes continued up to n nodes
RECURSIVE ValuesByNodes(_, _, _, _)
ValuesByNodes(byNodes, ofNodes, n, keySeqs) ==
    IF Len(byNodes) >= n THEN byNodes
    ELSE LET m == Len(byNodes)
             seqs == Concat([k \in 1..m |-> PrependAll(byNodes[k], ofNodes[m - k + 1])])
         IN  ValuesByNodes(Append(byNodes, Holding(seqs, keySeqs)), Append(ofNodes, seqs), n, keySeqs)

\* the Values of at most n nodes over the given scalars and keys
ValuesUpTo(n, scalars, keys) ==
    LET keySeqs == KeySeqs(Len(keys), keys)
    IN  Concat(ValuesByNodes(<<scalars \o Holding(<< <<>> >>, keySeqs)>>, << << <<>> >> >>, n, keySeqs))

\* the dicts and lists among them
ContainersUpTo(n, scalars, keys) ==
    SelectSeq(ValuesUpTo(n, scalars, keys), LAMBDA v : v.t \in {"map", "list"})

Containers == ContainersUpTo(MaxNodes, Scalars, MapKeys)

(***************************************************************************)
(* SpecBlock: dict_to_yaml of a Value, then yaml_to_dict of the text.      *)
(***************************************************************************)
InitBlock ==
    /\ op = "dict_to_yaml"
    /\ \E v \in 1..Len(Containers) : arg = Containers[v]
    /\ text = <<>>
    /\ out = Null
    /\ aux = Null

DictToYaml ==
    /\ op = "dict_to_yaml"
    /\ text' = dict_to_yaml(arg)
    /\ op' = "yaml_to_dict"
    /\ UNCHANGED <<arg, out, aux>>

YamlToDict ==
    /\ op = "yaml_to_dict"
    /\ out' = yaml_to_dict(text)
    /\ op' = "done"
    /\ UNCHANGED <<arg, text, aux>>

NextBlock == DictToYaml \/ YamlToDict

SpecBlock == InitBlock /\ [][NextBlock]_vars

(***************************************************************************)
(* Round trip through the block format                                     *)
(***************************************************************************)
\* no Map key of v holds ":" or starts with "-"
RECURSIVE KeysAllowed(_)
KeysAllowed(v) ==
    CASE v.t = "map" ->
            \A i \in 1..Len(v.pairs) :
                /\ ~contains(v.pairs[i][1], ":")
                /\ ~startswith(v.pairs[i][1], <<"-">>)
                /\ KeysAllowed(v.pairs[i][2])
      [] v.t = "list" -> \A i \in 1..Len(v.items) : KeysAllowed(v.items[i])
      [] OTHER -> TRUE

\* w has the structure of v: the same nesting of Maps and Lists, the same keys
\* in the same order, the same list lengths; a scalar of v is a scalar of w,
\* equal to it or coerced to an Integer or a Float
RECURSIVE SameStructure(_, _)
SameStructure(v, w) ==
    CASE v.t = "map" ->
            /\ w.t = "map"
            /\ Keys(w) = Keys(v)
            /\ \A i \in 1..Len(v.pairs) : SameStructure(v.pairs[i][2], w.pairs[i][2])
      [] v.t = "list" ->
            /\ w.t = "list"
            /\ Len(w.items) = Len(v.items)
            /\ \A i \in 1..Len(v.items) : SameStructure(v.items[i], w.items[i])
      [] OTHER -> w = v \/ (IsScalar(w) /\ w.t \in {"int", "float"})

\* C1: parse(serialize(v)) reproduces the structure of every Value v whose Map
\* keys hold no ":" and no leading "-", Lists of Maps or Lists and Maps of
\* Lists or Maps included, up to Integer/Float coercion of scalars.
C1_BlockRoundTrip == (op = "done" /\ KeysAllowed(arg)) => SameStructure(arg, out)

IsBoolOrNull(v) == v.t \in {"bool", "null"}

\* every item of the List is a scalar that serializes to a non-empty token
PlainItems(v) ==
    \A i \in 1..Len(v.items) : IsScalar(v.items[i]) /\ serialize_value(v.items[i]) # <<>>

\* w keeps every Boolean and Null that v holds as a Map value or as an item of
\* a List of scalars, at the same key or index, in v and in the Maps and Lists
\* that v's Maps hold
RECURSIVE KeepsBoolNull(_, _)
KeepsBoolNull(v, w) ==
    CASE v.t = "map" ->
            \A i \in 1..Len(v.pairs) :
                LET k == v.pairs[i][1]
                    x == v.pairs[i][2]
                IN  /\ IsBoolOrNull(x) => (w.t = "map" /\ HasKey(w, k) /\ Get(w, k) = x)
                    /\ (x.t \in {"map", "list"} /\ w.t = "map" /\ HasKey(w, k))
                          => KeepsBoolNull(x, Get(w, k))
      [] v.t = "list" ->
            PlainItems(v) =>
                \A i \in 1..Len(v.items) :
                    IsBoolOrNull(v.items[i]) =>
                        (w.t = "list" /\ Len(w.items) = Len(v.items) /\ w.items[i] = v.items[i])
      [] OTHER -> TRUE

\* the tokens the serializer writes for the Booleans and Null
BoolNullToken(x) ==
    IF x = Null THEN <<"n", "u", "l", "l">>
    ELSE IF x = Bool(TRUE) THEN <<"t", "r", "u", "e">>
    ELSE <<"f", "a", "l", "s", "e">>

\* the text holds the line "key: token" or "- token" for every Boolean and Null
\* directly in v
WritesBoolNullTokens(v, txt) ==
    LET lines == split(txt, "\n") IN
    CASE v.t = "map" ->
            \A i \in 1..Len(v.pairs) :
                IsBoolOrNull(v.pairs[i][2]) =>
                    \E l \in 1..Len(lines) :
                        lines[l] = v.pairs[i][1] \o <<":", " ">> \o BoolNullToken(v.pairs[i][2])
      [] v.t = "list" ->
            \A i \in 1..Len(v.items) :
                IsBoolOrNull(v.items[i]) =>
                    \E l \in 1..Len(lines) : lines[l] = <<"-", " ">> \o BoolNullToken(v.items[i])
      [] OTHER -> TRUE

C11_QuotedColonItem ==
    (op = "done" /\ arg.t = "list" /\ arg.items # <<>> /\ PlainItems(arg)) =>
        /\ out.t = "list"
        /\ Len(out.items) = Len(arg.items)
        /\ \A i \in 1..Len(arg.items) :
              /\ IsScalar(out.items[i])
              /\ (arg.items[i].t = "text" /\ contains(arg.items[i].s, ":"))
                    => out.items[i] = arg.items[i]

(***************************************************************************)
(* SpecParse: yaml_to_dict of a text of at most MaxLines lines, and of the *)
(* same text with one blank or comment line put between two of its lines.  *)
(***************************************************************************)
LinePool ==
    {<<"a", ":">>,
     <<"b", ":", " ", "1">>,
     <<" ", " ", "a", ":">>,
     <<" ", " ", "b", ":", " ", "1">>,
     <<" ", " ", " ", " ", "b", ":", " ", "1">>,
     <<"-", " ", "1">>,
     <<" ", " ", "-", " ", "1">>}

\* blank lines and comment lines
IgnoredLines ==
    {<<>>,
     <<" ", " ">>,
     <<"#", " ", "c">>,
     <<" ", " ", "#", " ", "c">>,
     <<" ", " ", " ", " ", "#", " ", "c">>}

RECURSIVE LineSeqs(_)
LineSeqs(n) ==
    IF n = 0 THEN {<<>>}
    ELSE {<<l>> \o r : l \in LinePool, r \in LineSeqs(n - 1)}

Documents == UNION {LineSeqs(n) : n \in 1..MaxLines}

InsertAt(lines, at, l) == SubSeq(lines, 1, at) \o <<l>> \o SubSeq(lines, at + 1, Len(lines))

\* the text with the line arg.ins put after its line arg.at (arg.at = 0: no line is put in)
EditedText == IF arg.at = 0 THEN text ELSE join(InsertAt(arg.lines, arg.at, arg.ins), <<"\n">>)

InitParse ==
    /\ op = "yaml_to_dict"
    /\ \E lines \in Documents :
          /\ \/ \E at \in 1..(Len(lines) - 1), ins \in IgnoredLines :
                    arg = [lines |-> lines, at |-> at, ins |-> ins]
             \/ Len(lines) = 1 /\ arg = [lines |-> lines, at |-> 0, ins |-> <<>>]
          /\ text = join(lines, <<"\n">>)
    /\ out = Null
    /\ aux = Null

ParseText ==
    /\ op = "yaml_to_dict"
    /\ out' = yaml_to_dict(text)
    /\ op' = "yaml_to_dict_edited"
    /\ UNCHANGED <<arg, text, aux>>

ParseEdited ==
    /\ op = "yaml_to_dict_edited"
    /\ aux' = yaml_to_dict(EditedText)
    /\ op' = "done"
    /\ UNCHANGED <<arg, text, out>>

NextParse == ParseText \/ ParseEdited

SpecParse == InitParse /\ [][NextParse]_vars

\* C8: a blank line or a comment line, at any indentation, put between two
\* lines of a text does not change the Value that parse returns.
C8_IgnoredLines == (op = "done" /\ arg.at >= 1) => aux = out

\* the lines that _parse_lines gets from parse
TopLines == split(strip(text), "\n")

IsComment(line) == startswith(strip(line), <<"#">>)

IsListItem(line) == startswith(strip(line), <<"-", " ">>)

IsKeyLine(line) == ~IsComment(line) /\ ~IsListItem(line) /\ contains(strip(line), ":")

KeyOf(line) == strip(split1(strip(line), ":")[1])

\* a line "key:" with an empty value
IsOpenKeyLine(line) == IsKeyLine(line) /\ strip(split1(strip(line), ":")[2]) = <<>>

\* line i is a "key:" line of the scope of indent 0, its key is on no other
\* line of that scope, and the scope has no list item
OpenKeyAtTop(L, i) ==
    /\ indent_of(L[i]) = 0
    /\ IsOpenKeyLine(L[i])
    /\ \A j \in 1..Len(L) :
          indent_of(L[j]) = 0 =>
              /\ ~IsListItem(L[j])
              /\ (j # i /\ IsKeyLine(L[j])) => KeyOf(L[j]) # KeyOf(L[i])

\* C10: a line "key:" stores its key: with the parse of the deeper lines that
\* follow when the next line is deeper, with Null in every other case (the
\* next line is not deeper, or there is none).
C10_EmptyValueKey ==
    op # "yaml_to_dict" =>
        \A i \in 1..Len(TopLines) :
            OpenKeyAtTop(TopLines, i) =>
                /\ out.t = "map"
                /\ HasKey(out, KeyOf(TopLines[i]))
                /\ Get(out, KeyOf(TopLines[i])) =
                      IF i + 1 <= Len(TopLines) /\ indent_of(TopLines[i + 1]) > 0
                      THEN parse_lines(SubSeq(TopLines, i + 1, sub_end(TopLines, i, 0) - 1),
                                       indent_of(TopLines[i + 1]))
                      ELSE Null

\* a line that is neither blank nor a comment
IsContent(line) == strip(line) # <<>> /\ ~IsComment(line)

\* the lines of a scope at indent k: those before the first content line of
\* smaller indent
ScopeLines(lines, k) ==
    LET ends == {j \in 1..Len(lines) : IsContent(lines[j]) /\ indent_of(lines[j]) < k}
    IN  IF ends = {} THEN lines ELSE SubSeq(lines, 1, MinOf(ends) - 1)

\* the content lines of the scope that stand at its indent
LinesAtIndent(lines, k) ==
    SelectSeq(ScopeLines(lines, k), LAMBDA l : IsContent(l) /\ indent_of(l) = k)

\* the value written on a key-value line
ValueOf(line) == strip(split1(strip(line), ":")[2])

\* result is what a scope at indent k returns for the lines by the rule "the
\* list wins": the List of the items of its list-item lines in line order when
\* it has one, and else a Map that holds keys of its key lines only, with the
\* parsed value for a key whose last line has a value, and that is empty when
\* there is no key line
ListWins(lines, k, result) ==
    LET own == LinesAtIndent(lines, k)
        items == SelectSeq(own, IsListItem)
        keyLines == SelectSeq(own, IsKeyLine)
    IN  IF items # <<>>
        THEN result = List([i \in 1..Len(items) |-> list_item(strip(items[i]))])
        ELSE /\ result.t = "map"
             /\ \A p \in 1..Len(result.pairs) :
                   \E l \in 1..Len(keyLines) : KeyOf(keyLines[l]) = result.pairs[p][1]
             /\ \A l \in 1..Len(keyLines) :
                   (/\ ValueOf(keyLines[l]) # <<>>
                    /\ \A m \in (l + 1)..Len(keyLines) : KeyOf(keyLines[m]) # KeyOf(keyLines[l]))
                   => (/\ HasKey(result, KeyOf(keyLines[l]))
                       /\ Get(result, KeyOf(keyLines[l])) = parse_value(ValueOf(keyLines[l])))

\* the nested blocks that the scope of indent 0 opens: the lines collected
\* after a "key:" line with a deeper next line, and the indent of that line
NestedBlocks(L) ==
    {<<SubSeq(L, i + 1, sub_end(L, i, 0) - 1), indent_of(L[i + 1])>> :
        i \in {j \in 1..(Len(L) - 1) :
                 /\ indent_of(L[j]) = 0
                 /\ IsOpenKeyLine(L[j])
                 /\ indent_of(L[j + 1]) > 0}}

\* C12: the list wins in every scope: a scope with a list-item line at its
\* indent returns the List of the items of those lines in line order, whatever
\* key-value pairs it read, and a scope without one returns the Map of its
\* key-value pairs, empty when it has none; never a mixture or a scalar.
C12_ListWins ==
    op # "yaml_to_dict" =>
        /\ ListWins(TopLines, 0, out)
        /\ out.t \in {"list", "map"}
        /\ \A b \in NestedBlocks(TopLines) :
              /\ ListWins(b[1], b[2], parse_lines(b[1], b[2]))
              /\ parse_lines(b[1], b[2]).t \in {"list", "map"}

\* the text "b: 1", "- 1", "b: 1" has been parsed to the List [1]
C12_Witness ==
    /\ op = "done"
    /\ text = <<"b", ":", " ", "1", "\n", "-", " ", "1", "\n", "b", ":", " ", "1">>
    /\ out = List(<<Integer(1)>>)

\* line j of the lines is collected into a nested block of the scope at
\* indent k: a "key:" line at the indent stands before it, the line after that
\* one is deeper, and from there to line j every line is deeper or blank
InNestedBlock(lines, k, j) ==
    \E i \in 1..(j - 1) :
        /\ IsContent(lines[i])
        /\ indent_of(lines[i]) = k
        /\ IsOpenKeyLine(lines[i])
        /\ indent_of(lines[i + 1]) > k
        /\ \A m \in (i + 1)..j : indent_of(lines[m]) > k \/ strip(lines[m]) = <<>>

\* the deeper content lines of the scope at indent k that no nested block holds
SkippedLines(lines, k) ==
    {j \in 1..Len(ScopeLines(lines, k)) :
        /\ IsContent(lines[j])
        /\ indent_of(lines[j]) > k
        /\ ~InNestedBlock(lines, k, j)}

Without(lines, j) == SubSeq(lines, 1, j - 1) \o SubSeq(lines, j + 1, Len(lines))

\* result is what the scope at indent k returns for the lines, by the window
\* rule: the same as without any one of its skipped lines, and the same as for
\* the lines before the first content line of smaller indent alone
WindowRule(lines, k, result) ==
    /\ result.t \in {"list", "map"}
    /\ \A j \in SkippedLines(lines, k) : parse_lines(Without(lines, j), k) = result
    /\ parse_lines(ScopeLines(lines, k), k) = result

\* C13: in the scope at indent 0 and in every nested block it opens, a deeper
\* content line that no nested block holds adds nothing to the result, the
\* first content line of smaller indent ends the scope and neither it nor a
\* line after it adds anything; the result is a List or a Map, never an error.
C13_IndentWindow ==
    op # "yaml_to_dict" =>
        /\ WindowRule(TopLines, 0, out)
        /\ \A b \in NestedBlocks(TopLines) : WindowRule(b[1], b[2], parse_lines(b[1], b[2]))

\* "a:", "    b: 1", "  b: 1" has been parsed: the nested block of a is
\* read at indent 4 and its second line, of indent 2, ends it
C13_Witness ==
    /\ op = "done"
    /\ text = <<"a", ":", "\n", " ", " ", " ", " ", "b", ":", " ", "1", "\n",
                " ", " ", "b", ":", " ", "1">>
    /\ out = Map(<< <<<<"a">>, Map(<< <<<<"b">>, Integer(1)>> >>)>> >>)
    /\ \E b \in NestedBlocks(TopLines) : b[2] = 4 /\ Len(ScopeLines(b[1], 4)) = 1 /\ Len(b[1]) = 2

(***************************************************************************)
(* The tree mapping codec.  An element is its tag, its attrib dict (pairs  *)
(* of a name and a value, both Values: ET.fromstring gives Text names and  *)
(* Text values), its text (Null for None) and its children.  A call that   *)
(* ends in an exception returns Raise(the exception's class).              *)
(***************************************************************************)
Element(tag, attrib, txt, children) ==
    [t |-> "element", tag |-> tag, attrib |-> attrib, text |-> txt, children |-> children]

Raise(exc) == [t |-> "raise", exc |-> exc]

ATTRIBUTES == <<"@", "a", "t", "t", "r", "i", "b", "u", "t", "e", "s">>

TEXT == <<"#", "t", "e", "x", "t">>

\* element.attrib as the dict stored under '@attributes' (the names are str)
attrib_dict(attrib) == Map([i \in 1..Len(attrib) |-> <<attrib[i][1].s, attrib[i][2]>>])

\* lines 233-239 with an existing entry overwritten instead of folded into a list
fold_child_overwrite(result, tag, child_data) == Put(result, tag, child_data)

\* lines 233-239 with the entry wrapped anew at every repetition
fold_child_rewrap(result, tag, child_data) ==
    IF HasKey(Map(result), tag)
    THEN Put(result, tag, List(<<Get(Map(result), tag), child_data>>))
    ELSE Put(result, tag, child_data)

\* lines 233-239: the child's Value goes under its tag; a tag already present
\* becomes a list
fold_child(result, tag, child_data) ==
    IF HasKey(Map(result), tag)
    THEN LET cur == Get(Map(result), tag) IN
         IF cur.t # "list"
         THEN Put(result, tag, List(<<cur, child_data>>))
         ELSE Put(result, tag, List(Append(cur.items, child_data)))
    ELSE Put(result, tag, child_data)

\* lines 231-239: the loop over the children, kids being (tag, Value) pairs
RECURSIVE fold_children(_, _)
fold_children(result, kids) ==
    IF kids = <<>> THEN result
    ELSE fold_children(fold_child(result, kids[1][1], kids[1][2]), Tail(kids))

\* lines 242-245 without the simplification of a single-text element
simplify_keep_map(result) == IF result # <<>> THEN Map(result) ELSE Null

\* lines 242-245: a result of the one entry '#text' is that text, an empty
\* result is None
simplify(result) ==
    IF Len(result) = 1 /\ HasKey(Map(result), TEXT) THEN Get(Map(result), TEXT)
    ELSE IF result # <<>> THEN Map(result)
    ELSE Null

\* DataConvert._element_to_dict
RECURSIVE element_to_dict(_)
element_to_dict(element) ==
    LET r1 == IF element.attrib # <<>>
              THEN <<<<ATTRIBUTES, attrib_dict(element.attrib)>>>>
              ELSE <<>>
        r2 == IF element.text # Null /\ element.text.s # <<>> /\ strip(element.text.s) # <<>>
              THEN Put(r1, TEXT, Text(strip(element.text.s)))
              ELSE r1
        result == fold_children(r2, [i \in 1..Len(element.children) |->
                      <<element.children[i].tag, element_to_dict(element.children[i])>>])
    IN  simplify(result)

\* the class of the exception with which dict.update rejects an element of
\* the sequence it is given, "" when the element is a pair
pair_exc(item) ==
    CASE item.t = "list" ->
            IF Len(item.items) # 2 THEN "ValueError"
            ELSE IF item.items[1].t \in {"map", "list"} THEN "TypeError"
            ELSE ""
      [] item.t = "text" -> IF Len(item.s) # 2 THEN "ValueError" ELSE ""
      [] item.t = "map" -> IF Len(item.pairs) # 2 THEN "ValueError" ELSE ""
      [] OTHER -> "TypeError"

\* the (name, value) pair that dict.update takes from such an element
pair_of(item) ==
    CASE item.t = "list" -> <<item.items[1], item.items[2]>>
      [] item.t = "text" -> <<Text(<<item.s[1]>>), Text(<<item.s[2]>>)>>
      [] item.t = "map" -> <<Text(item.pairs[1][1]), Text(item.pairs[2][1])>>

\* what dict.update iterates over: the pairs of a dict, the items of a list,
\* the characters of a str
update_items(val) ==
    CASE val.t = "map" -> [i \in 1..Len(val.pairs) |-> List(<<Text(val.pairs[i][1]), val.pairs[i][2]>>)]
      [] val.t = "list" -> val.items
      [] val.t = "text" -> [i \in 1..Len(val.s) |-> Text(<<val.s[i]>>)]

\* element.attrib.update(val) on an empty attrib (line 266): the exception's
\* class, "" when there is none
update_exc(val) ==
    IF val.t \notin {"map", "list", "text"} THEN "TypeError"
    ELSE LET items == update_items(val)
             bad == {i \in 1..Len(items) : pair_exc(items[i]) # ""}
         IN  IF bad = {} THEN "" ELSE pair_exc(items[MinOf(bad)])

RECURSIVE update_pairs(_, _)
update_pairs(attrib, items) ==
    IF items = <<>> THEN attrib
    ELSE update_pairs(Put(attrib, pair_of(items[1])[1], pair_of(items[1])[2]), Tail(items))

\* the attrib after element.attrib.update(val), when it does not raise
update(attrib, val) == update_pairs(attrib, update_items(val))

\* DataConvert._dict_to_element
RECURSIVE dict_to_element(_, _)
dict_to_element(data, tag) ==
    IF data.t = "map"
    THEN LET exc == IF HasKey(data, ATTRIBUTES) THEN update_exc(Get(data, ATTRIBUTES)) ELSE ""
             kids == Concat([i \in 1..Len(data.pairs) |->
                        LET key == data.pairs[i][1]
                            value == data.pairs[i][2]
                        IN  IF key = ATTRIBUTES \/ key = TEXT THEN <<>>
                            ELSE IF value.t = "list"
                            THEN [j \in 1..Len(value.items) |-> dict_to_element(value.items[j], key)]
                            ELSE <<dict_to_element(value, key)>>])
             raised == {i \in 1..Len(kids) : kids[i].t = "raise"}
         IN  IF exc # "" THEN Raise(exc)
             ELSE IF raised # {} THEN kids[MinOf(raised)]
             ELSE Element(tag,
                          IF HasKey(data, ATTRIBUTES) THEN update(<<>>, Get(data, ATTRIBUTES)) ELSE <<>>,
                          IF HasKey(data, TEXT) THEN Text(PyStr(Get(data, TEXT))) ELSE Null,
                          kids)
    ELSE IF data.t = "list"
    THEN LET kids == [i \in 1..Len(data.items) |-> dict_to_element(data.items[i], <<"i", "t", "e", "m">>)]
             raised == {i \in 1..Len(kids) : kids[i].t = "raise"}
         IN  IF raised # {} THEN kids[MinOf(raised)]
             ELSE Element(tag, <<>>, Null, kids)
    ELSE Element(tag, <<>>, Text(IF data # Null THEN PyStr(data) ELSE <<>>), <<>>)

(***************************************************************************)
(* SpecTree: _element_to_dict of an element tree of at most MaxTreeNodes   *)
(* nodes and _dict_to_element of the result with the root's tag; and       *)
(* _dict_to_element of a Value of at most MaxNodes nodes whose Maps may    *)
(* hold the reserved keys.  The tag of the call is kept in text.           *)
(***************************************************************************)
NodeContents ==
    <<[attrib |-> <<>>, text |-> Null],
      [attrib |-> <<>>, text |-> Text(<<" ", "t">>)],
      [attrib |-> << <<Text(<<"x">>), Text(<<"1">>)>> >>, text |-> Text(<<" ">>)]>>

ChildTags == << <<"a">>, <<"b">> >>

RootTag == <<"r">>

\* the elements with one of the tags, any contents and one of the forests as
\* children
Holders(tags, forests) ==
    LET c == CrossList(CrossList(tags, NodeContents), forests)
    IN  [i \in 1..Len(c) |-> Element(c[i][1][1], c[i][1][2].attrib, c[i][1][2].text, c[i][2])]

\* byNodes[k] lists the elements of k nodes and ofNodes[m + 1] the sequences
\* of elements with m nodes in all; the result is ofNodes continued up to n
\* nodes
RECURSIVE ForestsByNodes(_, _, _)
ForestsByNodes(byNodes, ofNodes, n) ==
    IF Len(ofNodes) > n THEN ofNodes
    ELSE LET m == Len(byNodes)
             seqs == Concat([k \in 1..m |-> PrependAll(byNodes[k], ofNodes[m - k + 1])])
         IN  ForestsByNodes(Append(byNodes, Holders(ChildTags, seqs)), Append(ofNodes, seqs), n)

\* the trees of at most n nodes
TreesUpTo(n) ==
    LET forests == Concat(ForestsByNodes(<<Holders(ChildTags, << <<>> >>)>>, << << <<>> >> >>, n - 1))
    IN  Holders(<<RootTag>>, forests)

TreeScalars == <<Null, Bool(TRUE), Integer(1), Text(<<"a">>), Text(<<"a", "b">>)>>

TreeKeys == << <<"a">>, ATTRIBUTES, TEXT>>

\* further contents, given to the root of smaller trees: whitespace for text
\* and no attribute, an attribute with a text, an attribute without text
RootOnlyContents ==
    <<[attrib |-> <<>>, text |-> Text(<<" ">>)],
      [attrib |-> << <<Text(<<"x">>), Text(<<"1">>)>> >>, text |-> Text(<<" ", "t">>)],
      [attrib |-> << <<Text(<<"x">>), Text(<<"1">>)>> >>, text |-> Null]>>

\* the trees of at most n nodes whose root has one of the contents
RootsWith(contents, n) ==
    LET forests == Concat(ForestsByNodes(<<Holders(ChildTags, << <<>> >>)>>, << << <<>> >> >>, n - 1))
        c == CrossList(contents, forests)
    IN  [i \in 1..Len(c) |-> Element(RootTag, c[i][1].attrib, c[i][1].text, c[i][2])]

\* the element trees of at most n nodes
Trees(n) == TreesUpTo(n) \o RootsWith(RootOnlyContents, n - 1)

TreeValues == ValuesUpTo(MaxNodes, TreeScalars, TreeKeys)

InitTree ==
    /\ aux = Null
    /\ \/ /\ op = "element_to_dict"
          /\ \E trees \in {Trees(MaxTreeNodes)} : \E e \in 1..Len(trees) : arg = trees[e]
          /\ text = arg.tag
          /\ out = Null
       \/ /\ op = "dict_to_element"
          /\ arg = Null
          /\ text = RootTag
          /\ \E v \in 1..Len(TreeValues) : out = TreeValues[v]

ElementToDict ==
    /\ op = "element_to_dict"
    /\ out' = element_to_dict(arg)
    /\ op' = "dict_to_element"
    /\ UNCHANGED <<arg, text, aux>>

DictToElement ==
    /\ op = "dict_to_element"
    /\ aux' = dict_to_element(out, text)
    /\ op' = "done"
    /\ UNCHANGED <<arg, text, out>>

NextTree == ElementToDict \/ DictToElement

SpecTree == InitTree /\ [][NextTree]_vars

\* C7: the block format codec and the tree mapping codec never end in an
\* error: _dict_to_element returns an element for every Value and tag, the
\* Maps that hold '@attributes' and '#text' with any Value included, and
\* _element_to_dict returns a Value for every element tree.
C7_CodecsNeverRaise ==
    /\ op = "done" => aux.t = "element"
    /\ (op = "dict_to_element" /\ arg # Null) => out.t # "raise"

\* the tag, the attribute set and the trimmed text of every node of a tree
RECURSIVE Shape(_)
Shape(e) ==
    [tag |-> e.tag,
     attrib |-> {e.attrib[i] : i \in 1..Len(e.attrib)},
     text |-> IF e.text = Null THEN <<>> ELSE strip(e.text.s),
     children |-> [i \in 1..Len(e.children) |-> Shape(e.children[i])]]

\* the tags and the attribute sets alone
RECURSIVE TagShape(_)
TagShape(e) ==
    [tag |-> e.tag,
     attrib |-> {e.attrib[i] : i \in 1..Len(e.attrib)},
     children |-> [i \in 1..Len(e.children) |-> TagShape(e.children[i])]]

IsEmptyNode(e) == e.attrib = <<>> /\ e.text = Null /\ e.children = <<>>

IsTextLeaf(e) ==
    e.attrib = <<>> /\ e.children = <<>> /\ e.text # Null /\ strip(e.text.s) # <<>>

\* C2 as claimed: the rebuilt tree has at every node the same sequence of
\* child tags and the same attribute set; an empty node maps to Null and back to
\* an empty node, a text leaf to a bare Text and back to a node with that text.
C2_TreeRoundTrip ==
    (op = "done" /\ arg # Null) =>
        /\ TagShape(aux) = TagShape(arg)
        /\ IsEmptyNode(arg) => (out = Null /\ aux.children = <<>> /\ aux.attrib = <<>>)
        /\ IsTextLeaf(arg) => (out = Text(strip(arg.text.s)) /\ aux.text = out)

\* the tags of the children in the order of their first occurrence
RECURSIVE FirstTags(_)
FirstTags(children) ==
    IF children = <<>> THEN <<>>
    ELSE LET r == FirstTags(SubSeq(children, 1, Len(children) - 1))
             tag == children[Len(children)].tag
         IN  IF \E i \in 1..Len(r) : r[i] = tag THEN r ELSE Append(r, tag)

\* the tree with the children of every node grouped by tag: the tags in the
\* order of their first occurrence, the children of one tag in their order
RECURSIVE Regroup(_)
Regroup(e) ==
    LET kids == [i \in 1..Len(e.children) |-> Regroup(e.children[i])]
        tags == FirstTags(kids)
    IN  Element(e.tag, e.attrib, e.text,
                Concat([g \in 1..Len(tags) |-> SelectSeq(kids, LAMBDA k : k.tag = tags[g])]))

\* C2 as amended: the rebuilt tree has at every node the same attribute set,
\* the same trimmed text and the same children grouped by tag (the same
\* sequence of child tags when equal tags are adjacent); an empty node maps to
\* Null and back to an empty node, a text leaf to a bare Text and back.
C2_TreeRoundTripGrouped ==
    (op = "done" /\ arg # Null) =>
        /\ Shape(aux) = Shape(Regroup(arg))
        /\ IsEmptyNode(arg) => (out = Null /\ aux.children = <<>> /\ aux.attrib = <<>>)
        /\ IsTextLeaf(arg) => (out = Text(strip(arg.text.s)) /\ aux.text = out)

\* a tree with children a, b, a has been mapped and rebuilt with children a, a, b
C2_Witness ==
    /\ op = "done"
    /\ arg # Null
    /\ [i \in 1..Len(arg.children) |-> arg.children[i].tag] = <<<<"a">>, <<"b">>, <<"a">>>>
    /\ [i \in 1..Len(aux.children) |-> aux.children[i].tag] = <<<<"a">>, <<"a">>, <<"b">>>>
    /\ out.t = "map"
    /\ Get(out, <<"a">>).t = "list"

(***************************************************************************)
(* DataConvert.convert.  json.loads, csv.DictReader and ET.fromstring are  *)
(* library parsers: data_str is represented by what the parser of its      *)
(* format makes of it, a Value (an element for xml) or the exception it    *)
(* raises; for yaml data_str is the text itself.  json.dumps, csv's writer *)
(* and the xml writers are library renderers: their text is represented by *)
(* Rendered(format, what is rendered).                                     *)
(***************************************************************************)
Rendered(format, of) == [t |-> "rendered", format |-> format, of |-> of]

\* lines 312 and 331: raise ValueError(f"Unsupported ... format: ...")
UnsupportedFormat(which) == [t |-> "raise", exc |-> "ValueError", msg |-> which]

\* DataConvert.json_to_dict
json_to_dict(json_str) == json_str.loads

\* DataConvert.dict_to_json
dict_to_json(data) == Rendered("json", data)

\* DataConvert.csv_to_dict
csv_to_dict(csv_str) == csv_str.reader

\* Python's truth value of a Value
truthy(v) ==
    CASE v.t = "null" -> FALSE
      [] v.t = "bool" -> v.b
      [] v.t = "int" -> v.n # 0
      [] v.t = "float" -> ~(v.kind = "fin" /\ v.ip = 0 /\ v.fp = <<>>)
      [] v.t = "text" -> v.s # <<>>
      [] v.t = "list" -> v.items # <<>>
      [] v.t = "map" -> v.pairs # <<>>

\* the class of the exception with which DictWriter rejects a row, "" when it
\* writes the row
row_exc(row, fieldnames) ==
    IF row.t # "map" THEN "AttributeError"
    ELSE IF \E i \in 1..Len(row.pairs) : \A j \in 1..Len(fieldnames) : row.pairs[i][1] # fieldnames[j]
    THEN "ValueError"
    ELSE ""

\* DataConvert.dict_to_csv
dict_to_csv(data) ==
    IF ~truthy(data) THEN Text(<<>>)
    ELSE IF data.t \in {"bool", "int", "float"} THEN Raise("TypeError")
    ELSE IF data.t = "text" THEN Raise("AttributeError")
    ELSE IF data.items[1].t # "map" THEN Raise("AttributeError")
    ELSE LET fieldnames == Keys(data.items[1])
             bad == {i \in 1..Len(data.items) : row_exc(data.items[i], fieldnames) # ""}
         IN  IF bad # {} THEN Raise(row_exc(data.items[MinOf(bad)], fieldnames))
             ELSE Rendered("csv", data)

\* DataConvert.xml_to_dict
xml_to_dict(xml_str) ==
    LET root == xml_str.fromstring
    IN  IF root.t = "raise" THEN root ELSE element_to_dict(root)

NameStartChars ==
    {"a", "b", "c", "d", "e", "f", "g", "h", "i", "j", "k", "l", "m", "n", "o", "p", "q",
     "r", "s", "t", "u", "v", "w", "x", "y", "z", "_"}

\* a tag or an attribute name that the writers' text parses back with
XmlName(s) ==
    /\ s # <<>>
    /\ s[1] \in NameStartChars
    /\ \A i \in 1..Len(s) : s[i] \in NameStartChars \cup Digits \cup {"-", "."}

\* the attrib entries of all the nodes of a tree
RECURSIVE AllAttribs(_)
AllAttribs(e) ==
    e.attrib \o Concat([i \in 1..Len(e.children) |-> AllAttribs(e.children[i])])

\* every tag and attribute name of a tree is a name
RECURSIVE XmlNames(_)
XmlNames(e) ==
    /\ XmlName(e.tag)
    /\ \A i \in 1..Len(e.attrib) : XmlName(e.attrib[i][1].s)
    /\ \A i \in 1..Len(e.children) : XmlNames(e.children[i])

\* lines 251-255: what ET.tostring and minidom.parseString can make of an
\* element.  ET.tostring raises TypeError for an attribute value that is None,
\* a bool or a number and for a name that is a bool or a number; the text of
\* a tree with str attributes and names throughout is parsed back and
\* returned.  What the writers do with the other trees (a list or a dict as
\* a value, None as a name, a tag that is no name) is left open.
xml_writers(root) ==
    LET attribs == AllAttribs(root) IN
    IF \E i \in 1..Len(attribs) :
          \/ attribs[i][2].t \in {"null", "bool", "int", "float"}
          \/ attribs[i][1].t \in {"bool", "int", "float"}
    THEN {Raise("TypeError")}
    ELSE IF \E i \in 1..Len(attribs) : attribs[i][2].t # "text" \/ attribs[i][1].t # "text"
    THEN {Rendered("xml", root), Raise("TypeError"), Raise("ExpatError")}
    ELSE IF XmlNames(root) THEN {Rendered("xml", root)}
    ELSE {Rendered("xml", root), Raise("ExpatError")}

\* DataConvert.dict_to_xml with pretty=True: the results it can have
dict_to_xml(data, root_name) ==
    LET root == dict_to_element(data, root_name)
    IN  IF root.t = "raise" THEN {root} ELSE xml_writers(root)

\* line 308 without the wrapping
wrap_root_bare(root_name, data) == data

\* line 308: data = {root_name: data}
wrap_root(root_name, data) == Map(<< <<root_name, data>> >>)

\* lines 301-312 with the xml document wrapped under its own root tag
parse_input_own_tag(input_format, data_str, root_name) ==
    CASE input_format = "json" -> json_to_dict(data_str)
      [] input_format = "csv" -> csv_to_dict(data_str)
      [] input_format = "xml" ->
            LET data == xml_to_dict(data_str)
            IN  IF data.t = "raise" THEN data ELSE wrap_root(data_str.fromstring.tag, data)
      [] input_format = "yaml" -> yaml_to_dict(data_str.text)
      [] OTHER -> UnsupportedFormat("input")

\* lines 301-312: the parse dispatch; the Value handed on, or the exception
parse_input(input_format, data_str, root_name) ==
    CASE input_format = "json" -> json_to_dict(data_str)
      [] input_format = "csv" -> csv_to_dict(data_str)
      [] input_format = "xml" ->
            LET data == xml_to_dict(data_str)
            IN  IF data.t = "raise" THEN data ELSE wrap_root(root_name, data)
      [] input_format = "yaml" -> yaml_to_dict(data_str.text)
      [] OTHER -> UnsupportedFormat("input")

\* lines 323-327 with every dict unwrapped by its first key
xml_root_first_key(data, root_name) ==
    IF data.t = "map" /\ Len(data.pairs) >= 1
    THEN <<data.pairs[1][2], data.pairs[1][1]>>
    ELSE <<data, root_name>>

\* lines 323-327: the Value and the tag that dict_to_xml is called with
xml_root(data, root_name) ==
    IF data.t = "map" /\ Len(data.pairs) = 1
    THEN <<data.pairs[1][2], data.pairs[1][1]>>
    ELSE <<data, root_name>>

\* lines 315-331 with json as the format of any other tag
serialize_output_json_default(output_format, data, root_name) ==
    CASE output_format = "csv" -> {dict_to_csv(IF data.t = "map" THEN List(<<data>>) ELSE data)}
      [] output_format = "xml" ->
            LET r == xml_root(data, root_name) IN dict_to_xml(r[1], r[2])
      [] output_format = "yaml" -> {Text(dict_to_yaml(data))}
      [] OTHER -> {dict_to_json(data)}

\* lines 315-331: the serialize dispatch; the results the call can have, a
\* text returned or an exception
serialize_output(output_format, data, root_name) ==
    CASE output_format = "json" -> {dict_to_json(data)}
      [] output_format = "csv" -> {dict_to_csv(IF data.t = "map" THEN List(<<data>>) ELSE data)}
      [] output_format = "xml" ->
            LET r == xml_root(data, root_name) IN dict_to_xml(r[1], r[2])
      [] output_format = "yaml" -> {Text(dict_to_yaml(data))}
      [] OTHER -> {UnsupportedFormat("output")}

(***************************************************************************)
(* SpecConvert: one call of convert, its parse dispatch and then its       *)
(* serialize dispatch.  arg holds the arguments, out the parsed Value and  *)
(* aux what the call returns or raises.                                    *)
(***************************************************************************)
Formats == <<"json", "csv", "xml", "yaml", "toml">>

Supported == {"json", "csv", "xml", "yaml"}

RootNames == << <<"r", "o", "o", "t">>, <<"r">> >>

DocScalars == <<Null, Integer(1), Text(<<"a">>)>>

DocKeys == << <<"a">>, <<"b">>, ATTRIBUTES>>

DocValues == ValuesUpTo(MaxDocNodes, DocScalars, DocKeys)

\* the documents of json: the Values, and a text that json.loads rejects
JsonDocs ==
    [i \in 1..Len(DocValues) |-> [loads |-> DocValues[i]]]
    \o <<[loads |-> Raise("JSONDecodeError")]>>

\* the documents of csv: the rows that DictReader makes of a header a,b
CsvDocs ==
    <<[reader |-> List(<<>>)],
      [reader |-> List(<<Map(<< <<<<"a">>, Text(<<"1">>)>>, <<<<"b">>, Text(<<"a">>)>> >>)>>)],
      [reader |-> List(<<Map(<< <<<<"a">>, Text(<<"1">>)>>, <<<<"b">>, Text(<<"a">>)>> >>),
                         Map(<< <<<<"a">>, Text(<<"a">>)>>, <<<<"b">>, Null>> >>)>>)]>>

\* the documents of xml: the trees under the root tags r and d, and a text
\* that ET.fromstring rejects
XmlDocs ==
    LET trees == TreesUpTo(MaxDocTreeNodes) IN
    [i \in 1..Len(trees) |-> [fromstring |-> trees[i]]]
    \o [i \in 1..Len(trees) |-> [fromstring |-> [trees[i] EXCEPT !.tag = <<"d">>]]]
    \o <<[fromstring |-> Raise("ParseError")]>>

\* the documents of yaml: the texts that the serializer writes
YamlDocs == [i \in 1..Len(DocValues) |-> [text |-> dict_to_yaml(DocValues[i])]]

\* the documents given with a format tag that is none of the four
OtherDocs == <<[text |-> <<>>], [text |-> <<"a">>]>>

DocsOf(format) ==
    CASE format = "json" -> JsonDocs
      [] format = "csv" -> CsvDocs
      [] format = "xml" -> XmlDocs
      [] format = "yaml" -> YamlDocs
      [] OTHER -> OtherDocs

InitConvert ==
    /\ op = "convert"
    /\ \E f, g \in 1..Len(Formats), r \in 1..Len(RootNames) :
         \E d \in 1..Len(DocsOf(Formats[f])) :
            arg = [input_format |-> Formats[f], output_format |-> Formats[g],
                   data_str |-> DocsOf(Formats[f])[d], root_name |-> RootNames[r]]
    /\ text = <<>>
    /\ out = Null
    /\ aux = Null

\* lines 301-312: the input is parsed, or the call ends in the exception
ParseInput ==
    /\ op = "convert"
    /\ LET data == parse_input(arg.input_format, arg.data_str, arg.root_name) IN
       IF data.t = "raise"
       THEN /\ aux' = data
            /\ op' = "raised"
            /\ UNCHANGED out
       ELSE /\ out' = data
            /\ op' = "serialize"
            /\ UNCHANGED aux
    /\ UNCHANGED <<arg, text>>

\* lines 315-331: the Value is written in the output format
SerializeOutput ==
    /\ op = "serialize"
    /\ aux' \in serialize_output(arg.output_format, out, arg.root_name)
    /\ op' = "returned"
    /\ UNCHANGED <<arg, text, out>>

NextConvert == ParseInput \/ SerializeOutput

SpecConvert == InitConvert /\ [][NextConvert]_vars

Ended == op \in {"raised", "returned"}

\* C3 as claimed: a call with a source or destination format outside the four
\* ends in the unsupported-format ValueError, whatever the text.
C3_UnsupportedAlways ==
    (Ended /\ (arg.input_format \notin Supported \/ arg.output_format \notin Supported)) =>
        (aux = UnsupportedFormat("input") \/ aux = UnsupportedFormat("output"))

\* C3 as amended: a call with a source format outside the four ends in the
\* unsupported-format ValueError whatever the text; a call with a source format
\* of the four and a destination format outside them ends in it when the
\* source parser returned a Value, and in the parser's own exception when the
\* parser raised one; no text is returned in either case.
C3_UnsupportedAfterParse ==
    Ended =>
        /\ arg.input_format \notin Supported => aux = UnsupportedFormat("input")
        /\ (arg.input_format \in Supported /\ arg.output_format \notin Supported) =>
              IF op = "returned" THEN aux = UnsupportedFormat("output")
              ELSE aux.t = "raise" /\ aux.exc \in {"JSONDecodeError", "ParseError"}

\* a json document that parses has been converted to a format outside the four
C3_Witness ==
    /\ op = "returned"
    /\ arg.input_format = "json"
    /\ arg.output_format = "toml"
    /\ out = Map(<< <<<<"a">>, Integer(1)>> >>)
    /\ aux = UnsupportedFormat("output")

XmlParsed ==
    /\ op \in {"serialize", "returned"}
    /\ arg.input_format = "xml"

\* C4: with xml as the source format the Value handed to the destination
\* serializer is a Map of exactly one entry, its key the root_name argument
\* and its value _element_to_dict of the document's root element, whatever
\* the document's own root tag.
C4_XmlWrappedUnderRootName ==
    XmlParsed =>
        /\ out.t = "map"
        /\ Len(out.pairs) = 1
        /\ out.pairs[1] = <<arg.root_name, element_to_dict(arg.data_str.fromstring)>>

\* the document <d><a> t</a></d> has been converted to json with root_name
\* 'root': the object has the one key 'root' and root.a = 't'
C4_Witness ==
    /\ op = "returned"
    /\ arg.input_format = "xml"
    /\ arg.output_format = "json"
    /\ arg.root_name = <<"r", "o", "o", "t">>
    /\ arg.data_str.fromstring =
          Element(<<"d">>, <<>>, Null, <<Element(<<"a">>, <<>>, Text(<<" ", "t">>), <<>>)>>)
    /\ aux = Rendered("json", Map(<< <<<<"r", "o", "o", "t">>,
                                      Map(<< <<<<"a">>, Text(<<"t">>)>> >>)>> >>))

\* C5 as claimed: with xml as the source format the tree codec's output is
\* wrapped in a single-entry Map keyed by the document's root tag.
C5_KeyedByDocumentTag ==
    XmlParsed => Keys(out) = <<arg.data_str.fromstring.tag>>

\* C5 as amended: with xml as the source format the tree codec's output is
\* wrapped in a single-entry Map keyed by the root_name argument; the
\* document's root tag is not a key of it unless it is the root_name.
C5_KeyedByRootName ==
    XmlParsed =>
        /\ Keys(out) = <<arg.root_name>>
        /\ arg.data_str.fromstring.tag # arg.root_name => ~HasKey(out, arg.data_str.fromstring.tag)

\* a document with root tag d has been parsed with root_name r and is held
\* under the key r
C5_Witness ==
    /\ op = "serialize"
    /\ arg.input_format = "xml"
    /\ arg.root_name = <<"r">>
    /\ arg.data_str.fromstring.tag = <<"d">>
    /\ Keys(out) = << <<"r">> >>

\* C6: with xml as the destination format a Map of exactly one entry is
\* unwrapped, the emitted root's tag being the entry's key and the tree built
\* from the entry's value; any other Value is built whole under root_name.
C6_XmlRootUnwrapped ==
    (op = "returned" /\ arg.output_format = "xml") =>
        LET single == out.t = "map" /\ Len(out.pairs) = 1
            tag == IF single THEN out.pairs[1][1] ELSE arg.root_name
            value == IF single THEN out.pairs[1][2] ELSE out
        IN  /\ aux \in dict_to_xml(value, tag)
            /\ aux.t = "rendered" => (aux.of.tag = tag /\ aux.of = dict_to_element(value, tag))

\* the Map {'a': {'b': 1}} has been written as the element a with the one
\* child b, root_name r being ignored
C6_Witness ==
    /\ op = "returned"
    /\ arg.input_format = "json"
    /\ arg.output_format = "xml"
    /\ arg.root_name = <<"r">>
    /\ out = Map(<< <<<<"a">>, Map(<< <<<<"b">>, Integer(1)>> >>)>> >>)
    /\ aux = Rendered("xml", Element(<<"a">>, <<>>, Null,
                                      <<Element(<<"b">>, <<>>, Text(<<"1">>), <<>>)>>))

\* the children of e with the tag, in document order
ChildrenTagged(e, tag) == SelectSeq(e.children, LAMBDA c : c.tag = tag)

\* v folds the children of e, and so on down the tree: v is a Map whose keys
\* besides '@attributes' and '#text' are the tags of the children; a tag of
\* one child holds that child's Value, a tag of n >= 2 children the List of
\* their n Values in document order
RECURSIVE Folded(_, _)
Folded(e, v) ==
    e.children # <<>> =>
        /\ v.t = "map"
        /\ \A p \in 1..Len(v.pairs) :
              v.pairs[p][1] \in {ATTRIBUTES, TEXT}
              \/ \E c \in 1..Len(e.children) : e.children[c].tag = v.pairs[p][1]
        /\ \A c \in 1..Len(e.children) :
              LET tag == e.children[c].tag
                  same == ChildrenTagged(e, tag)
                  values == [i \in 1..Len(same) |-> element_to_dict(same[i])]
              IN  /\ HasKey(v, tag)
                  /\ Get(v, tag) = IF Len(same) = 1 THEN values[1] ELSE List(values)
                  /\ Len(same) = 1 => Get(v, tag).t # "list"
                  /\ Folded(e.children[c], element_to_dict(e.children[c]))

\* C14: _element_to_dict puts the Value of a child whose tag occurs once under
\* the tag as it is, and the Values of the n >= 2 children of one tag under the
\* tag as a List of n Values in document order; none is lost or duplicated.
C14_RepeatedTagsFolded ==
    (op \in {"dict_to_element", "done"} /\ arg # Null) => Folded(arg, out)

\* an element with three children a has been mapped to a List of three Values
C14_Witness ==
    /\ op = "dict_to_element"
    /\ arg # Null
    /\ [i \in 1..Len(arg.children) |-> arg.children[i].tag] = <<<<"a">>, <<"a">>, <<"a">>>>
    /\ arg.children[1].text = Null
    /\ arg.children[2].text = Text(<<" ", "t">>)
    /\ out.t = "map"
    /\ Get(out, <<"a">>).t = "list"
    /\ Len(Get(out, <<"a">>).items) = 3
    /\ Get(out, <<"a">>).items[2] = Text(<<"t">>)

\* the trimmed text of an element, empty for None
Trimmed(e) == IF e.text = Null THEN <<>> ELSE strip(e.text.s)

\* v has the shape that the attributes, the trimmed text and the children of e
\* ask for, and so on down the tree
RECURSIVE ShapeOf(_, _)
ShapeOf(e, v) ==
    LET hasAttrib == e.attrib # <<>>
        hasText == Trimmed(e) # <<>>
        hasChildren == e.children # <<>>
    IN  /\ v.t = "text" <=> (hasText /\ ~hasAttrib /\ ~hasChildren)
        /\ v.t = "text" => v = Text(Trimmed(e))
        /\ v = Null <=> (~hasText /\ ~hasAttrib /\ ~hasChildren)
        /\ v.t \in {"text", "null", "map"}
        /\ v.t = "map" =>
              /\ HasKey(v, ATTRIBUTES) <=> hasAttrib
              /\ HasKey(v, TEXT) <=> hasText
              /\ hasText => Get(v, TEXT) = Text(Trimmed(e))
              /\ hasAttrib => Get(v, ATTRIBUTES) = attrib_dict(e.attrib)
        /\ \A c \in 1..Len(e.children) : ShapeOf(e.children[c], element_to_dict(e.children[c]))

\* C15: _element_to_dict returns the trimmed text as a bare Text exactly for a
\* node with non-empty trimmed text, no attributes and no children, Null
\* exactly for a node with none of the three, and a Map in every other case,
\* with '@attributes' iff the node has attributes and '#text' iff its trimmed
\* text is non-empty.
C15_ResultShape ==
    (op \in {"dict_to_element", "done"} /\ arg # Null) => ShapeOf(arg, out)

\* an element with an attribute, the text " t" and a child with whitespace for
\* text has been mapped to a Map with '@attributes', '#text' and Null for the child
C15_Witness ==
    /\ op = "dict_to_element"
    /\ arg # Null
    /\ arg.attrib # <<>>
    /\ arg.text = Text(<<" ", "t">>)
    /\ Len(arg.children) = 1
    /\ arg.children[1].tag = <<"a">>
    /\ arg.children[1].text = Null
    /\ arg.children[1].children = <<>>
    /\ arg.children[1].attrib = <<>>
    /\ out = Map(<< <<ATTRIBUTES, Map(<< <<<<"x">>, Text(<<"1">>)>> >>)>>,
                    <<TEXT, Text(<<"t">>)>>,
                    <<<<"a">>, Null>> >>)

(***************************************************************************)
(* SpecLoop: one call of SimpleYAML._parse_lines, step by step.  aux is    *)
(* the call stack, the innermost call last; a frame holds the locals of    *)
(* the call (cursors 1-based) and pc, its place: "while" at the test of    *)
(* the main loop, "collect" at the test of the inner loop, "call" while    *)
(* the recursive call of line 94 runs, "return" at line 102.  arg is the   *)
(* outermost call's lines and indent, out its result, text the greatest    *)
(* depth the stack has had.                                                *)
(***************************************************************************)
LoopIndents == <<0, 2>>

\* key lines with and without value, list items, a blank line, a comment and
\* a line without ':', at the indents 0, 2 and 4
LoopLinePool ==
    {<<"a", ":">>,
     <<"b", ":", " ", "1">>,
     <<" ", " ", "a", ":">>,
     <<" ", " ", " ", " ", "b", ":", " ", "1">>,
     <<"-", " ", "1">>,
     <<" ", " ", "-", " ", "1">>,
     <<>>,
     <<" ", " ", "#", " ", "c">>,
     <<"x">>}

RECURSIVE LoopLineSeqs(_)
LoopLineSeqs(n) ==
    IF n = 0 THEN {<<>>}
    ELSE {<<l>> \o r : l \in LoopLinePool, r \in LoopLineSeqs(n - 1)}

LoopDocuments == UNION {LoopLineSeqs(n) : n \in 0..MaxLines}

\* lines 36-39: the locals at the start of a call
Frame(lines, indent) ==
    [lines |-> lines, indent |-> indent, i |-> 1, result |-> <<>>, list_items |-> <<>>,
     pc |-> "while", j |-> 0, key |-> <<>>, next_indent |-> 0]

Top == aux[Len(aux)]

SetTop(f) == [aux EXCEPT ![Len(aux)] = f]

\* line 86 with the collection started at the "key:" line itself
collect_start_at_key(i) == i

\* line 86: j = i + 1
collect_start(i) == i + 1

InitLoop ==
    /\ op = "call"
    /\ arg = Null
    /\ aux = <<>>
    /\ out = Null
    /\ text = 0

\* line 34: _parse_lines is called with some lines and some indent
Call ==
    /\ op = "call"
    /\ \E lines \in LoopDocuments, k \in 1..Len(LoopIndents) :
          arg' = [lines |-> lines, indent |-> LoopIndents[k]]
    /\ aux' = <<Frame(arg'.lines, arg'.indent)>>
    /\ op' = "parse_lines"
    /\ text' = 1
    /\ UNCHANGED out

\* the innermost call is at a line of its main loop (line 41)
Reading ==
    /\ op = "parse_lines"
    /\ Top.pc = "while"
    /\ Top.i <= Len(Top.lines)

\* lines 42-43, 49: the locals of one iteration of the main loop, with f the
\* frame of the call
Cursor ==
    [f |-> Top,
     line |-> Top.lines[Top.i],
     stripped |-> strip(Top.lines[Top.i]),
     line_indent |-> indent_of(Top.lines[Top.i])]

\* line 45: a blank line or a comment
Ignored(c) == c.stripped = <<>> \/ startswith(c.stripped, <<"#">>)

\* lines 45-56 passed: the line is read at the indent of the call
AtOwnLine(c) ==
    /\ ~Ignored(c)
    /\ indent_window(c.line_indent, c.f.indent) = "at"

\* lines 59, 71: the line is no list item and holds a ':'
AtKeyLine(c) ==
    /\ AtOwnLine(c)
    /\ ~startswith(c.stripped, <<"-", " ">>)
    /\ contains(c.stripped, ":")

\* line 41: the main loop ends at the end of the lines
Exhausted ==
    /\ op = "parse_lines"
    /\ Top.pc = "while"
    /\ Top.i > Len(Top.lines)
    /\ aux' = SetTop([Top EXCEPT !.pc = "return"])
    /\ UNCHANGED <<op, arg, text, out>>

\* lines 45-47: a blank line or a comment
SkipIgnored ==
    /\ Reading
    /\ \E c \in {Cursor} :
          /\ Ignored(c)
          /\ aux' = SetTop([c.f EXCEPT !.i = @ + 1])
    /\ UNCHANGED <<op, arg, text, out>>

\* lines 51-52: break
Break ==
    /\ Reading
    /\ \E c \in {Cursor} :
          /\ ~Ignored(c)
          /\ indent_window(c.line_indent, c.f.indent) = "break"
          /\ aux' = SetTop([c.f EXCEPT !.pc = "return"])
    /\ UNCHANGED <<op, arg, text, out>>

\* lines 54-56: a deeper line
SkipDeeper ==
    /\ Reading
    /\ \E c \in {Cursor} :
          /\ ~Ignored(c)
          /\ indent_window(c.line_indent, c.f.indent) = "continue"
          /\ aux' = SetTop([c.f EXCEPT !.i = @ + 1])
    /\ UNCHANGED <<op, arg, text, out>>

\* lines 59-68: a list item
ListItem ==
    /\ Reading
    /\ \E c \in {Cursor} :
          /\ AtOwnLine(c)
          /\ startswith(c.stripped, <<"-", " ">>)
          /\ \E item \in {list_item(c.stripped)} :
                aux' = SetTop([c.f EXCEPT !.list_items = Append(@, item), !.i = @ + 1])
    /\ UNCHANGED <<op, arg, text, out>>

\* lines 72-74: key and value of a key line
key_value(stripped) ==
    [key |-> strip(split1(stripped, ":")[1]), value |-> strip(split1(stripped, ":")[2])]

\* lines 71-77 and 100: a key with a value
KeyValue ==
    /\ Reading
    /\ \E c \in {Cursor} :
          /\ AtKeyLine(c)
          /\ \E kv \in {key_value(c.stripped)} :
                /\ kv.value # <<>>
                /\ \E parsed \in {parse_value(kv.value)} :
                      aux' = SetTop([c.f EXCEPT !.result = Put(@, kv.key, parsed), !.i = @ + 1])
    /\ UNCHANGED <<op, arg, text, out>>

\* lines 80-86: a key without value before a deeper line; the collection of
\* the nested block starts
OpenBlock ==
    /\ Reading
    /\ \E c \in {Cursor} :
          /\ AtKeyLine(c)
          /\ \E kv \in {key_value(c.stripped)} :
                /\ kv.value = <<>>
                /\ c.f.i + 1 <= Len(c.f.lines)
                /\ \E next_indent \in {indent_of(c.f.lines[c.f.i + 1])} :
                      /\ next_indent > c.line_indent
                      /\ aux' = SetTop([c.f EXCEPT !.pc = "collect",
                                                   !.j = collect_start(c.f.i),
                                                   !.key = kv.key,
                                                   !.next_indent = next_indent])
    /\ UNCHANGED <<op, arg, text, out>>

\* lines 80-83, 97-100: a key without value and without nested block: None is
\* stored when the line is the last one
OpenKey ==
    /\ Reading
    /\ \E c \in {Cursor} :
          /\ AtKeyLine(c)
          /\ \E kv \in {key_value(c.stripped)} :
                /\ kv.value = <<>>
                /\ IF c.f.i + 1 <= Len(c.f.lines)
                   THEN /\ indent_of(c.f.lines[c.f.i + 1]) <= c.line_indent
                        /\ aux' = SetTop([c.f EXCEPT !.i = @ + 1])
                   ELSE aux' = SetTop([c.f EXCEPT !.result = Put(@, kv.key, Null), !.i = @ + 1])
    /\ UNCHANGED <<op, arg, text, out>>

\* line 100 alone: a line at the indent that is neither a list item nor a key
OtherLine ==
    /\ Reading
    /\ \E c \in {Cursor} :
          /\ AtOwnLine(c)
          /\ ~startswith(c.stripped, <<"-", " ">>)
          /\ ~contains(c.stripped, ":")
          /\ aux' = SetTop([c.f EXCEPT !.i = @ + 1])
    /\ UNCHANGED <<op, arg, text, out>>

\* lines 87-90: the inner loop stops at the end of the lines and at a
\* non-blank line that is not deeper than the "key:" line
CollectStops(f) ==
    IF f.j > Len(f.lines) THEN TRUE
    ELSE /\ indent_of(f.lines[f.j]) <= indent_of(f.lines[f.i])
         /\ strip(f.lines[f.j]) # <<>>

\* lines 87-93: one more line for the nested block
Collect ==
    /\ op = "parse_lines"
    /\ Top.pc = "collect"
    /\ \E f \in {Top} :
          /\ ~CollectStops(f)
          /\ aux' = SetTop([f EXCEPT !.j = @ + 1])
    /\ UNCHANGED <<op, arg, text, out>>

\* line 94: the recursive call on the collected lines
Descend ==
    /\ op = "parse_lines"
    /\ Top.pc = "collect"
    /\ \E f \in {Top} :
          /\ CollectStops(f)
          /\ aux' = Append(SetTop([f EXCEPT !.pc = "call"]),
                           Frame(SubSeq(f.lines, f.i + 1, f.j - 1), f.next_indent))
    /\ text' = IF Len(aux') > text THEN Len(aux') ELSE text
    /\ UNCHANGED <<op, arg, out>>

\* line 102, and lines 94-96 in the caller: the call returns; the caller
\* stores the value and goes on at j
Return ==
    /\ op = "parse_lines"
    /\ Top.pc = "return"
    /\ \E value \in {scope_result(Top.result, Top.list_items)} :
          IF Len(aux) = 1
          THEN /\ out' = value
               /\ op' = "returned"
               /\ aux' = <<>>
          ELSE /\ \E caller \in {aux[Len(aux) - 1]} :
                     aux' = Append(SubSeq(aux, 1, Len(aux) - 2),
                                   [caller EXCEPT !.result = Put(@, caller.key, value),
                                                  !.i = caller.j, !.pc = "while"])
               /\ UNCHANGED <<op, out>>
    /\ UNCHANGED <<arg, text>>

NextLoop ==
    \/ Call
    \/ Exhausted
    \/ SkipIgnored
    \/ Break
    \/ SkipDeeper
    \/ ListItem
    \/ KeyValue
    \/ OpenBlock
    \/ OpenKey
    \/ OtherLine
    \/ Collect
    \/ Descend
    \/ Return

SpecLoop == InitLoop /\ [][NextLoop]_vars

\* the interpreter takes the next step of a call that has not returned
SpecLoopFair == SpecLoop /\ WF_vars(NextLoop)

\* the step-by-step call returns what parse_lines computes
LoopAgrees == op = "returned" => out = parse_lines(arg.lines, arg.indent)

\* every call on the stack has its cursors inside its lines, and every nested
\* call has fewer lines than its caller
FramesBounded ==
    \A d \in 1..Len(aux) :
        /\ aux[d].i \in 1..(Len(aux[d].lines) + 1)
        /\ aux[d].pc \in {"collect", "call"} => aux[d].j \in (aux[d].i + 1)..(Len(aux[d].lines) + 1)
        /\ d > 1 => Len(aux[d].lines) < Len(aux[d - 1].lines)

\* the number of nested recursive calls is at most the number of lines
DepthBounded == op = "parse_lines" => (Len(aux) - 1) + Len(Top.lines) <= Len(arg.lines)

\* a step ends a scope, or hands a strictly shorter slice to a recursive
\* call, or moves a cursor of the innermost call forward
ProgressStep ==
    \/ op = "call"
    \/ op' = "returned"
    \/ /\ op' = "parse_lines"
       /\ Len(aux') < Len(aux)
       /\ aux'[Len(aux')].pc = "while"
       /\ aux'[Len(aux')].i > aux[Len(aux')].i
    \/ /\ Len(aux') > Len(aux)
       /\ Len(aux'[Len(aux')].lines) < Len(Top.lines)
    \/ /\ op' = "parse_lines"
       /\ Len(aux') = Len(aux)
       /\ LET f == Top
              g == aux'[Len(aux')]
          IN  \/ f.pc = "while" /\ g.pc = "return"
              \/ f.pc = "while" /\ g.pc = "while" /\ g.i > f.i
              \/ f.pc = "while" /\ g.pc = "collect" /\ g.j > f.i
              \/ f.pc = "collect" /\ g.pc = "collect" /\ g.j > f.j

\* C16: _parse_lines terminates for every finite sequence of lines and every
\* indent: each iteration of the main loop ends the scope or moves the cursor
\* i forward (the nested-block branch moves it to j > i), the inner loop moves
\* j forward, each recursive call gets a slice strictly shorter than its
\* caller's lines, the depth of the recursion is at most the number of lines,
\* and the outermost call returns
C16_ParseLinesTerminates ==
    /\ [](FramesBounded /\ DepthBounded)
    /\ [][ProgressStep]_vars
    /\ <>(op = "returned")

\* "a:", "  a:", "    b: 1" at indent 0: two recursive calls, one inside the
\* other, have run and the outermost call has returned {'a': {'a': {'b': 1}}}
C16_Witness ==
    /\ op = "returned"
    /\ arg.indent = 0
    /\ Len(arg.lines) = 3
    /\ text = 3
    /\ out = Map(<< <<<<"a">>, Map(<< <<<<"a">>, Map(<< <<<<"b">>, Integer(1)>> >>)>> >>)>> >>)
    /\ out = parse_lines(arg.lines, arg.indent)

====
